---- MODULE Spec2Model ----
(***************************************************************************)
(* configfile.Load (src/configfile.go): reads a configuration file line by *)
(* line and forwards every "name = value" entry to flag.Set.               *)
(*                                                                         *)
(* Strings are sequences of one-character strings, so that trimming,       *)
(* prefix tests and cutting at '=' are computed, not assumed.              *)
(***************************************************************************)
EXTENDS Integers, Sequences, FiniteSets, TLC

\* ------------------------------------------------------------- bounds
\* Total number of lines held by the files of the file system.
MaxLines == 2
\* Number of top-level calls of Load made by the program.
MaxLoads == 2
\* Number of nested Load activations the runtime can hold (stack, descriptors).
MaxDepth == 3
\* Length of the raw lines enumerated for the line parser (SpecLine).
MaxLineLen == 4

\* ------------------------------------------------------------ strings
\* unicode.IsSpace, restricted to the white space of the modelled alphabet.
IsSpace(c) == c \in {" ", "\t"}

\* strings.TrimLeftFunc(s, unicode.IsSpace), as its loop.
RECURSIVE TrimLeft(_)
TrimLeft(s) ==
    IF s = <<>> THEN <<>>
    ELSE IF IsSpace(Head(s)) THEN TrimLeft(Tail(s)) ELSE s

\* strings.TrimRightFunc(s, unicode.IsSpace), as its loop.
RECURSIVE TrimRight(_)
TrimRight(s) ==
    IF s = <<>> THEN <<>>
    ELSE IF IsSpace(s[Len(s)]) THEN TrimRight(SubSeq(s, 1, Len(s) - 1)) ELSE s

\* A plausible slip: only leading white space is removed.
TrimSpaceLeftOnly(s) == TrimLeft(s)

\* strings.TrimSpace
TrimSpace(s) == TrimRight(TrimLeft(s))

\* strings.HasPrefix
HasPrefix(s, prefix) ==
    /\ Len(s) >= Len(prefix)
    /\ SubSeq(s, 1, Len(prefix)) = prefix

\* strings.Index for a one-character separator: 0 stands for Go's -1.
RECURSIVE IndexFrom(_, _, _)
IndexFrom(s, c, i) ==
    IF i > Len(s) THEN 0
    ELSE IF s[i] = c THEN i ELSE IndexFrom(s, c, i + 1)

Index(s, c) == IndexFrom(s, c, 1)

\* strings.LastIndex for a one-character separator: 0 stands for Go's -1.
RECURSIVE LastIndexFrom(_, _, _)
LastIndexFrom(s, c, i) ==
    IF i < 1 THEN 0
    ELSE IF s[i] = c THEN i ELSE LastIndexFrom(s, c, i - 1)

\* A plausible slip: the line is cut at its last separator.
CutLast(s, sep) ==
    LET i == LastIndexFrom(s, sep, Len(s))
    IN  IF i = 0
        THEN [before |-> s, after |-> <<>>, found |-> FALSE]
        ELSE [before |-> SubSeq(s, 1, i - 1),
              after  |-> SubSeq(s, i + 1, Len(s)),
              found  |-> TRUE]

\* strings.Cut(s, sep): s around the first sep.
Cut(s, sep) ==
    LET i == Index(s, sep)
    IN  IF i = 0
        THEN [before |-> s, after |-> <<>>, found |-> FALSE]
        ELSE [before |-> SubSeq(s, 1, i - 1),
              after  |-> SubSeq(s, i + 1, Len(s)),
              found  |-> TRUE]

\* ------------------------------------------------------------- errors
\* Every error is a record with a kind (the message's fixed text); the
\* arguments of the format and the wrapped error (%w) are further fields.
Nil == [kind |-> "nil"]

\* The causes Load wraps: the operating system's, bufio's and flag's errors.
ENOENT == [kind |-> "no such file or directory"]
EMFILE == [kind |-> "too many open files"]
ErrTooLong == [kind |-> "bufio.Scanner: token too long"]
NoSuchFlag(name) == [kind |-> "no such flag", name |-> name]
ErrParse == [kind |-> "parse error"]

\* fmt.Errorf("failed to open file '%s': %w", configfile, err)
OpenError(configfile, err) ==
    [kind |-> "failed to open file", path |-> configfile, cause |-> err]

\* fmt.Errorf("failed to split line (expected to find an '='): %s", line)
SplitError(line) ==
    [kind |-> "failed to split line", line |-> line]

\* A plausible slip: the wrapped error is dropped from the message.
SetErrorNoCause(name, value, err) ==
    [kind |-> "failed to set flag", name |-> name, value |-> value, cause |-> Nil]

\* fmt.Errorf("failed to set flag '%s' to value '%s': %w", name, value, err)
SetError(name, value, err) ==
    [kind |-> "failed to set flag", name |-> name, value |-> value, cause |-> err]

\* fmt.Errorf("failed to scan: %w", err)
ScanError(err) ==
    [kind |-> "failed to scan", cause |-> err]

\* ------------------------------------------------------- one line
\* strings.HasPrefix(line, "#") on the trimmed line.
IsComment(line) == HasPrefix(line, <<"#">>)

\* A plausible slip: comment lines are parsed like any other line.
SkipsOnlyBlank(line) == line = <<>>

\* line == "" || strings.HasPrefix(line, "#")
Skips(line) == line = <<>> \/ IsComment(line)

\* What Load does with one line of text, up to the call of flag.Set:
\* trim, skip blank and comment lines, cut at the first '=', trim both parts.
ParseLine(text) ==
    LET line == TrimSpace(text)
        cut  == Cut(line, "=")
    IN  IF Skips(line)
        THEN [class |-> "skip", line |-> line, name |-> <<>>, value |-> <<>>]
        ELSE IF ~cut.found
        THEN [class |-> "split", line |-> line, name |-> <<>>, value |-> <<>>]
        ELSE [class |-> "entry", line |-> line,
              name  |-> TrimSpace(cut.before),
              value |-> TrimSpace(cut.after)]

\* ------------------------------------------------------- the flags
\* The flags the tests and the example define, by kind of flag.Value:
\* key1 (flag.String), int_flag (flag.Int), config-file (flag.Func of Load).
\* Their names are shortened to one character: k, n, c.
\* A plausible slip: a string flag is defined under the empty name too.
FlagTypeWithEmptyName(name) ==
    CASE name = <<"k">> -> "string"
      [] name = <<>> -> "string"
      [] name = <<"n">> -> "int"
      [] name = <<"c">> -> "func"
      [] OTHER -> "none"

FlagType(name) ==
    CASE name = <<"k">> -> "string"
      [] name = <<"n">> -> "int"
      [] name = <<"c">> -> "func"
      [] OTHER -> "none"

\* The decimal digits of the modelled alphabet ("0" is left out: with base 0
\* a leading "0" selects another base).
Digits == <<"1", "2", "3", "4", "5", "6", "7", "8", "9">>

IsDigit(c) == \E d \in 1..Len(Digits) : Digits[d] = c

DigitVal(c) == CHOOSE d \in 1..Len(Digits) : Digits[d] = c

RECURSIVE Atoi(_, _)
Atoi(s, acc) ==
    IF s = <<>> THEN acc ELSE Atoi(Tail(s), 10 * acc + DigitVal(Head(s)))

\* strconv.ParseInt(s, 0, 64) on strings of the alphabet: the value and
\* whether the syntax is valid; the value is 0 when it is not.
ParseInt(s) ==
    IF s # <<>> /\ \A i \in 1..Len(s) : IsDigit(s[i])
    THEN [v |-> Atoi(s, 0), ok |-> TRUE]
    ELSE [v |-> 0, ok |-> FALSE]

\* A plausible slip: the flag accumulates the values it is given.
SetStringAppend(old, value) == old \o value

\* (*stringValue).Set
SetString(old, value) == value

\* flag.Set(name, value) for the flags holding a value: the error returned
\* and the flags afterwards. (*intValue).Set stores the result of ParseInt
\* whether or not it failed, so a rejected value leaves 0 in an int flag.
SetValue(name, value, fl) ==
    CASE FlagType(name) = "string" ->
            [err |-> Nil, flags |-> [fl EXCEPT !.key1 = SetString(@, value)]]
      [] FlagType(name) = "int" ->
            LET r == ParseInt(value)
            IN  [err   |-> IF r.ok THEN Nil ELSE ErrParse,
                 flags |-> [fl EXCEPT !.int_flag = r.v]]
      [] OTHER ->
            [err |-> NoSuchFlag(name), flags |-> fl]

\* ------------------------------------------------------- the files
\* A line longer than bufio.MaxScanTokenSize: Scan stops at it with
\* ErrTooLong. It stands for every failure of reading after the open.
TooLong == <<"<line longer than the scanner's buffer>">>

\* The lines of the modelled files, one for each way Load treats a line.
Lines ==
    { <<" ">>,                                  \* blank after trimming
      <<"#", "k", "=", "1">>,                   \* comment that looks like an entry
      <<" ", "k", " ", "=", " ", "1", " ">>,    \* key1 = 1, with white space
      <<"k", "=">>,                             \* key1 with the empty value
      <<"n", "=", "7">>,                        \* int_flag = 7
      <<"n", "=", "k">>,                        \* int_flag = not an int
      <<"=", "1">>,                             \* empty name
      <<"k">>,                                  \* no '='
      <<"u", "=", "1">>,                        \* a flag nobody defined
      <<"c", "=", "a">>,                        \* config-file = a
      <<"c", "=", "b">>,                        \* config-file = b
      TooLong }

\* The paths the program loads; b may not exist.
PathA == <<"a">>
PathB == <<"b">>
Paths == {PathA, PathB}

\* The characters of the raw lines given to the line parser alone.
Alphabet == {" ", "\t", "=", "#", "k", "1"}

\* The values the flags hold when the program starts loading: the defaults
\* of the tests, or values given earlier.
StartFlags ==
    { [key1 |-> <<>>, int_flag |-> 0],
      [key1 |-> <<"9">>, int_flag |-> 8] }

\* ------------------------------------------------------- the state
VARIABLES
    fs,       \* path -> [exists, lines]: the files, unchanged while loading
    flags,    \* the values of the flags (flag.CommandLine)
    stack,    \* the activations of Load, the innermost last
    fds,      \* the open file descriptors
    loaded,   \* the top-level calls of Load that returned: path, error, flags
    crashed,  \* the runtime gave up: the goroutine stack is exhausted
    trace,    \* the calls of flag.Set on value flags since the program's call
    flags0,   \* the flags before the first Load
    text,     \* the raw line given to the line parser (SpecLine)
    parsed    \* what the line parser made of it (SpecLine)

vars == <<fs, flags, stack, fds, loaded, crashed, trace, flags0, text, parsed>>

NotParsed == [class |-> "none", line |-> <<>>, name |-> <<>>, value |-> <<>>]

Init ==
    /\ \E na \in 0..MaxLines :
       \E nb \in 0..(MaxLines - na) :
       \E la \in [1..na -> Lines] :
       \E lb \in [1..nb -> Lines] :
       \E eb \in BOOLEAN :
          /\ eb \/ nb = 0
          /\ fs = [p \in Paths |->
                     IF p = PathA THEN [exists |-> TRUE, lines |-> la]
                     ELSE [exists |-> eb, lines |-> lb]]
    /\ flags \in StartFlags
    /\ flags0 = flags
    /\ stack = <<>>
    /\ fds = {}
    /\ loaded = <<>>
    /\ crashed = FALSE
    /\ trace = <<>>
    /\ text = <<>>
    /\ parsed = NotParsed

\* ------------------------------------------------------- Load
Top == stack[Len(stack)]

\* os.Open(configfile): the error, and the descriptor (the lowest free one).
Open(configfile) ==
    IF configfile \in DOMAIN fs /\ fs[configfile].exists
    THEN [err |-> Nil,
          fd  |-> CHOOSE n \in 3..(3 + Cardinality(fds)) :
                     /\ n \notin fds
                     /\ \A m \in 3..(n - 1) : m \in fds]
    ELSE [err |-> ENOENT, fd |-> 0]

\* The activation of Load after a successful open: scanner := bufio.NewScanner(file)
NewFrame(configfile, fd) ==
    [path |-> configfile, file |-> fd, pos |-> 0, calls |-> <<>>,
     pc |-> "scan", err |-> Nil]

\* A plausible slip: the file is closed only when Load succeeds.
CloseOnSuccessOnly(frame, open) ==
    IF frame.err.kind = "nil" THEN open \ {frame.file} ELSE open

\* defer file.Close(): runs on every return of an activation that opened.
Close(frame, open) == open \ {frame.file}

\* A plausible slip: a failed Set is ignored and the next line is read.
AfterSetContinue(err) == "scan"

\* A plausible slip: Load returns after the first entry it has set.
AfterSetReturn(err) == "ret"

\* if err := flag.Set(name, value); err != nil { return ... }: where Load
\* goes after the call.
AfterSet(err) == IF err.kind = "nil" THEN "scan" ELSE "ret"

\* The error Load returns after flag.Set returned err.
SetResult(name, value, err) ==
    IF err.kind = "nil" THEN Nil ELSE SetError(name, value, err)

\* Load(p) called by the program; os.Open fails.
LoadOpenFails(p) ==
    /\ stack = <<>> /\ ~crashed /\ Len(loaded) < MaxLoads
    /\ Open(p).err.kind # "nil"
    /\ loaded' = Append(loaded,
                   [path |-> p, err |-> OpenError(p, Open(p).err), flags |-> flags])
    /\ trace' = <<>>
    /\ UNCHANGED <<fs, flags, stack, fds, crashed, flags0, text, parsed>>

\* Load(p) called by the program; os.Open succeeds.
LoadOpens(p) ==
    /\ stack = <<>> /\ ~crashed /\ Len(loaded) < MaxLoads
    /\ Open(p).err.kind = "nil"
    /\ stack' = <<NewFrame(p, Open(p).fd)>>
    /\ fds' = fds \cup {Open(p).fd}
    /\ trace' = <<>>
    /\ UNCHANGED <<fs, flags, loaded, crashed, flags0, text, parsed>>

Scanning == stack # <<>> /\ ~crashed /\ Top.pc = "scan"

Rest == fs[Top.path].lines

SetTop(f) == [stack EXCEPT ![Len(stack)] = f]

\* scanner.Scan() returns false at the end of the file; scanner.Err() is nil.
ScanEOF ==
    /\ Scanning
    /\ Top.pos = Len(Rest)
    /\ stack' = SetTop([Top EXCEPT !.pc = "ret", !.err = Nil])
    /\ UNCHANGED <<fs, flags, fds, loaded, crashed, trace, flags0, text, parsed>>

\* scanner.Scan() returns false on a read failure; scanner.Err() is not nil.
\* (pos counts the lines the scanner was asked for, the unreadable one too.)
ScanFails ==
    /\ Scanning
    /\ Top.pos < Len(Rest)
    /\ Rest[Top.pos + 1] = TooLong
    /\ stack' = SetTop([Top EXCEPT !.pos = @ + 1, !.pc = "ret",
                                   !.err = ScanError(ErrTooLong)])
    /\ UNCHANGED <<fs, flags, fds, loaded, crashed, trace, flags0, text, parsed>>

NextLine == ParseLine(Rest[Top.pos + 1])

HasLine == Scanning /\ Top.pos < Len(Rest) /\ Rest[Top.pos + 1] # TooLong

\* One turn of the loop on a blank or comment line: continue.
ScanSkip ==
    /\ HasLine
    /\ NextLine.class = "skip"
    /\ stack' = SetTop([Top EXCEPT !.pos = @ + 1])
    /\ UNCHANGED <<fs, flags, fds, loaded, crashed, trace, flags0, text, parsed>>

\* One turn of the loop on a line without '=': return the error.
ScanSplitFails ==
    /\ HasLine
    /\ NextLine.class = "split"
    /\ stack' = SetTop([Top EXCEPT !.pos = @ + 1, !.pc = "ret",
                                   !.err = SplitError(NextLine.line)])
    /\ UNCHANGED <<fs, flags, fds, loaded, crashed, trace, flags0, text, parsed>>

TheCall == [line |-> Top.pos + 1, name |-> NextLine.name, value |-> NextLine.value]

\* One turn of the loop on an entry of a flag that holds a value, or of no
\* flag: flag.Set(name, value), then continue or return its error.
ScanSet ==
    /\ HasLine
    /\ NextLine.class = "entry"
    /\ FlagType(NextLine.name) # "func"
    /\ LET r == SetValue(NextLine.name, NextLine.value, flags)
       IN  /\ flags' = r.flags
           /\ stack' = SetTop([Top EXCEPT
                  !.pos = @ + 1,
                  !.calls = Append(@, TheCall),
                  !.pc = AfterSet(r.err),
                  !.err = SetResult(NextLine.name, NextLine.value, r.err)])
           /\ trace' = Append(trace, [name |-> NextLine.name, value |-> NextLine.value,
                                      ok |-> r.err.kind = "nil"])
    /\ UNCHANGED <<fs, fds, loaded, crashed, flags0, text, parsed>>

IsLoadEntry == HasLine /\ NextLine.class = "entry" /\ FlagType(NextLine.name) = "func"

\* flag.Set of the config-file flag calls Load(value); its os.Open fails,
\* so Set fails and the calling Load returns that error.
ScanLoadOpenFails ==
    /\ IsLoadEntry
    /\ Len(stack) < MaxDepth
    /\ Open(NextLine.value).err.kind # "nil"
    /\ LET e == OpenError(NextLine.value, Open(NextLine.value).err)
       IN  stack' = SetTop([Top EXCEPT
                  !.pos = @ + 1,
                  !.calls = Append(@, TheCall),
                  !.pc = AfterSet(e),
                  !.err = SetResult(NextLine.name, NextLine.value, e)])
    /\ UNCHANGED <<fs, flags, fds, loaded, crashed, trace, flags0, text, parsed>>

\* flag.Set of the config-file flag calls Load(value); its os.Open succeeds
\* and the nested Load starts, the calling one waiting inside flag.Set.
ScanLoadOpens ==
    /\ IsLoadEntry
    /\ Len(stack) < MaxDepth
    /\ Open(NextLine.value).err.kind = "nil"
    /\ stack' = Append(SetTop([Top EXCEPT
                  !.pos = @ + 1,
                  !.calls = Append(@, TheCall),
                  !.pc = "set"]),
                  NewFrame(NextLine.value, Open(NextLine.value).fd))
    /\ fds' = fds \cup {Open(NextLine.value).fd}
    /\ UNCHANGED <<fs, flags, loaded, crashed, trace, flags0, text, parsed>>

\* As ScanLoadOpenFails, at the depth where the process has no descriptor
\* left: os.Open fails with EMFILE.
ScanLoadNoDescriptor ==
    /\ IsLoadEntry
    /\ Len(stack) >= MaxDepth
    /\ LET e == OpenError(NextLine.value, EMFILE)
       IN  stack' = SetTop([Top EXCEPT
                  !.pos = @ + 1,
                  !.calls = Append(@, TheCall),
                  !.pc = AfterSet(e),
                  !.err = SetResult(NextLine.name, NextLine.value, e)])
    /\ UNCHANGED <<fs, flags, fds, loaded, crashed, trace, flags0, text, parsed>>

\* At the depth where the goroutine stack has no room left, the nested call
\* of Load is a fatal stack overflow: no activation ever returns.
ScanLoadStackOverflow ==
    /\ IsLoadEntry
    /\ Len(stack) >= MaxDepth
    /\ crashed' = TRUE
    /\ UNCHANGED <<fs, flags, stack, fds, loaded, trace, flags0, text, parsed>>

\* return of a nested Load: the deferred Close runs, flag.Set returns the
\* error to the calling Load, which continues or returns it wrapped.
ReturnNested ==
    /\ stack # <<>> /\ ~crashed /\ Top.pc = "ret"
    /\ Len(stack) > 1
    /\ LET caller == stack[Len(stack) - 1]
           call   == caller.calls[Len(caller.calls)]
       IN  stack' = [SubSeq(stack, 1, Len(stack) - 1) EXCEPT ![Len(stack) - 1] =
                       [caller EXCEPT
                          !.pc = AfterSet(Top.err),
                          !.err = SetResult(call.name, call.value, Top.err)]]
    /\ fds' = Close(Top, fds)
    /\ UNCHANGED <<fs, flags, loaded, crashed, trace, flags0, text, parsed>>

\* return of the Load the program called: the deferred Close runs.
ReturnTop ==
    /\ stack # <<>> /\ ~crashed /\ Top.pc = "ret"
    /\ Len(stack) = 1
    /\ stack' = <<>>
    /\ fds' = Close(Top, fds)
    /\ loaded' = Append(loaded, [path |-> Top.path, err |-> Top.err, flags |-> flags])
    /\ UNCHANGED <<fs, flags, crashed, trace, flags0, text, parsed>>

Next ==
    \/ \E p \in Paths : LoadOpenFails(p)
    \/ \E p \in Paths : LoadOpens(p)
    \/ ScanEOF
    \/ ScanFails
    \/ ScanSkip
    \/ ScanSplitFails
    \/ ScanSet
    \/ ScanLoadOpenFails
    \/ ScanLoadOpens
    \/ ScanLoadNoDescriptor
    \/ ScanLoadStackOverflow
    \/ ReturnNested
    \/ ReturnTop

Spec == Init /\ [][Next]_vars

\* ------------------------------------------------ the line parser alone
RECURSIVE StringsUpTo(_)
StringsUpTo(n) ==
    IF n = 0 THEN {<<>>}
    ELSE LET shorter == StringsUpTo(n - 1)
         IN  shorter \cup {Append(s, c) : s \in shorter, c \in Alphabet}

InitLine ==
    /\ text \in StringsUpTo(MaxLineLen)
    /\ parsed = NotParsed
    /\ fs = [p \in Paths |-> [exists |-> FALSE, lines |-> <<>>]]
    /\ flags = [key1 |-> <<>>, int_flag |-> 0]
    /\ flags0 = flags
    /\ stack = <<>>
    /\ fds = {}
    /\ loaded = <<>>
    /\ crashed = FALSE
    /\ trace = <<>>

\* The body of the loop on the line, up to the call of flag.Set.
Parse ==
    /\ parsed.class = "none"
    /\ parsed' = ParseLine(text)
    /\ UNCHANGED <<fs, flags, stack, fds, loaded, crashed, trace, flags0, text>>

NextOfLine == Parse

SpecLine == InitLine /\ [][NextOfLine]_vars

\* ============================================================ claims
\* What the specification says of a line, stated on character positions
\* (not by running the parser).
Blanks == {" ", "\t"}

Least(S) == CHOOSE x \in S : \A y \in S : x <= y

Greatest(S) == CHOOSE x \in S : \A y \in S : x >= y

Inked(l) == {i \in 1..Len(l) : l[i] \notin Blanks}

Stripped(l) == IF Inked(l) = {} THEN <<>> ELSE SubSeq(l, Least(Inked(l)), Greatest(Inked(l)))

IsBlankLine(l) == Inked(l) = {}

IsCommentLine(l) == Inked(l) # {} /\ l[Least(Inked(l))] = "#"

Separators(l) == {i \in 1..Len(l) : l[i] = "="}

IsEntryLine(l) ==
    /\ l # TooLong
    /\ ~IsBlankLine(l)
    /\ ~IsCommentLine(l)
    /\ Separators(l) # {}

IsMalformedLine(l) ==
    /\ l # TooLong
    /\ ~IsBlankLine(l)
    /\ ~IsCommentLine(l)
    /\ Separators(l) = {}

EntryName(l) == Stripped(SubSeq(l, 1, Least(Separators(l)) - 1))

EntryValue(l) == Stripped(SubSeq(l, Least(Separators(l)) + 1, Len(l)))

\* The entries of the first n lines of a file, in line order.
RECURSIVE EntriesOf(_, _)
EntriesOf(lines, n) ==
    IF n = 0 THEN <<>>
    ELSE IF IsEntryLine(lines[n])
         THEN Append(EntriesOf(lines, n - 1),
                     [line |-> n, name |-> EntryName(lines[n]), value |-> EntryValue(lines[n])])
         ELSE EntriesOf(lines, n - 1)

DigitOf(c) ==
    CASE c = "1" -> 1 [] c = "2" -> 2 [] c = "3" -> 3 [] c = "4" -> 4 [] c = "5" -> 5
      [] c = "6" -> 6 [] c = "7" -> 7 [] c = "8" -> 8 [] c = "9" -> 9

IsNumeral(v) == v # <<>> /\ \A i \in 1..Len(v) : v[i] \in {"1", "2", "3", "4", "5", "6", "7", "8", "9"}

RECURSIVE NumberOf(_)
NumberOf(v) ==
    IF v = <<>> THEN 0
    ELSE 10 * NumberOf(SubSeq(v, 1, Len(v) - 1)) + DigitOf(v[Len(v)])

NameKey1 == <<"k">>
NameIntFlag == <<"n">>
NameConfigFile == <<"c">>

\* A file every line of which is blank, a comment or an entry the registry
\* accepts; an entry of config-file is accepted when the file it names is
\* such a file too (seen: the files being loaded, which cannot load again).
RECURSIVE Clean(_, _)
Clean(path, seen) ==
    /\ path \in DOMAIN fs
    /\ fs[path].exists
    /\ path \notin seen
    /\ \A i \in 1..Len(fs[path].lines) :
          LET l == fs[path].lines[i]
          IN  \/ l # TooLong /\ (IsBlankLine(l) \/ IsCommentLine(l))
              \/ /\ IsEntryLine(l)
                 /\ \/ EntryName(l) = NameKey1
                    \/ EntryName(l) = NameIntFlag /\ IsNumeral(EntryValue(l))
                    \/ EntryName(l) = NameConfigFile /\ Clean(EntryValue(l), seen \cup {path})

AcceptedLine(l) ==
    \/ l # TooLong /\ (IsBlankLine(l) \/ IsCommentLine(l))
    \/ /\ IsEntryLine(l)
       /\ \/ EntryName(l) = NameKey1
          \/ EntryName(l) = NameIntFlag /\ IsNumeral(EntryValue(l))
          \/ EntryName(l) = NameConfigFile /\ Clean(EntryValue(l), {})

Frames == {stack[i] : i \in 1..Len(stack)}

LinesOf(f) == fs[f.path].lines

Returning(f) == f.pc = "ret"

Failed(f) == f.pc = "ret" /\ f.err.kind # "nil"

\* C1: at every moment the calls of flag.Set an activation of Load has made
\* are exactly the entries of the lines it has read, one call per entry, in
\* line order (so each call is made before the next line is read); it
\* returns nil only with every line read, and on a file whose lines are all
\* accepted it returns nil.
C1_CallsAreEntriesInOrder ==
    \A f \in Frames :
       /\ f.pos <= Len(LinesOf(f))
       /\ f.calls = EntriesOf(LinesOf(f), f.pos)
       /\ (Returning(f) /\ f.err.kind = "nil") => f.pos = Len(LinesOf(f))
       /\ (Returning(f) /\ Clean(f.path, {})) => f.err.kind = "nil"

\* A Load that returned nil after two calls of flag.Set.
C1_Witness ==
    \E f \in Frames :
       /\ Returning(f) /\ f.err.kind = "nil"
       /\ Len(f.calls) = 2
       /\ f.calls[1].line < f.calls[2].line

\* C5: of a line that is neither blank nor a comment and holds '=', the pair
\* given to flag.Set is the text before the first '=' and the text after it,
\* each with its surrounding white space removed; later '=' stay in the
\* value, and an empty value is a pair like any other.
C5_PairIsTrimmedAroundFirstSeparator ==
    parsed.class # "none" =>
       /\ parsed.class = "entry" <=> IsEntryLine(text)
       /\ parsed.class = "entry" =>
             /\ parsed.name = EntryName(text)
             /\ parsed.value = EntryValue(text)

\* A parsed line with white space to trim whose value holds a later '='.
C5_Witness ==
    /\ parsed.class = "entry"
    /\ \E i \in 1..Len(parsed.value) : parsed.value[i] = "="
    /\ Len(parsed.name) > 0
    /\ Len(text) > Len(parsed.name) + Len(parsed.value) + 1

\* C6: a line that is blank or whose first ink is '#' gives no call of
\* flag.Set and no error; a Load of a file of such lines returns nil
\* without any call.
C6_BlankAndCommentLinesAreSkipped ==
    \A f \in Frames :
       /\ \A i \in 1..f.pos :
             (LinesOf(f)[i] # TooLong
                /\ (IsBlankLine(LinesOf(f)[i]) \/ IsCommentLine(LinesOf(f)[i]))) =>
                /\ \A c \in 1..Len(f.calls) : f.calls[c].line # i
                /\ ~(Failed(f) /\ f.pos = i)
       /\ (/\ Returning(f)
           /\ \A i \in 1..Len(LinesOf(f)) :
                 /\ LinesOf(f)[i] # TooLong
                 /\ IsBlankLine(LinesOf(f)[i]) \/ IsCommentLine(LinesOf(f)[i]))
          => (f.err.kind = "nil" /\ f.calls = <<>>)

\* A Load that returned from a file of a comment that looks like an entry
\* and a blank line.
C6_Witness ==
    \E f \in Frames :
       /\ Returning(f)
       /\ Len(LinesOf(f)) = 2
       /\ \E i \in 1..2 : IsCommentLine(LinesOf(f)[i]) /\ Separators(LinesOf(f)[i]) # {}
       /\ \E i \in 1..2 : IsBlankLine(LinesOf(f)[i])

ValueFlags == {NameKey1, NameIntFlag}

\* Flag g holds the value written v.
Holds(g, v, fl) ==
    IF g = NameKey1 THEN fl.key1 = v
    ELSE IsNumeral(v) /\ fl.int_flag = NumberOf(v)

SameValue(g, fl1, fl2) ==
    IF g = NameKey1 THEN fl1.key1 = fl2.key1 ELSE fl1.int_flag = fl2.int_flag

\* The flags when the program made its current (or next) call of Load.
FlagsAtCall == IF loaded = <<>> THEN flags0 ELSE loaded[Len(loaded)].flags

\* The Load the program called is returning an error.
TopFailed == Len(stack) = 1 /\ Failed(stack[1])

\* The lines read without failure by an activation that is returning an error.
ReadBeforeFailure(f) == f.pos - 1

\* The calls made are those of the entries up to the line of the failure and
\* of no later line, and every line before it was accepted.
StopsAtFirstError ==
    \A f \in Frames :
       Failed(f) =>
          /\ f.calls = EntriesOf(LinesOf(f), f.pos)
          /\ \A c \in 1..Len(f.calls) : f.calls[c].line <= f.pos
          /\ \A i \in 1..ReadBeforeFailure(f) : AcceptedLine(LinesOf(f)[i])

\* A Load that could not open its file left the flags as they were.
OpenFailureChangesNothing ==
    \A i \in 1..Len(loaded) :
       loaded[i].err.kind = "failed to open file" =>
          loaded[i].flags = (IF i = 1 THEN flags0 ELSE loaded[i - 1].flags)

AcceptedCalls(g) == {i \in 1..Len(trace) : trace[i].name = g /\ trace[i].ok}

\* Flag g holds the value of the last accepted call naming it.
KeepsLastAccepted(g) == Holds(g, trace[Greatest(AcceptedCalls(g))].value, flags)

RejectedFor(g) == \E i \in 1..Len(trace) : trace[i].name = g /\ ~trace[i].ok

RECURSIVE Flat(_, _)
Flat(path, n) ==
    IF n = 0 THEN <<>>
    ELSE LET l == fs[path].lines[n]
         IN  Flat(path, n - 1) \o
             (IF ~IsEntryLine(l) THEN <<>>
              ELSE IF EntryName(l) = NameConfigFile
                   THEN Flat(EntryValue(l), Len(fs[EntryValue(l)].lines))
                   ELSE <<[name |-> EntryName(l), value |-> EntryValue(l)]>>)

RECURSIVE FlatLoaded(_)
FlatLoaded(n) ==
    IF n = 0 THEN <<>>
    ELSE FlatLoaded(n - 1) \o Flat(loaded[n].path, Len(fs[loaded[n].path].lines))

AllSucceeded == \A i \in 1..Len(loaded) : loaded[i].err.kind = "nil"

\* C3: after successful Loads every flag holds the value of the last entry
\* naming it over all the files loaded, in the order loaded and then in line
\* order, and a flag no entry names holds the value it had before the first.
C3_LastEntryWins ==
    (stack = <<>> /\ AllSucceeded) =>
       /\ \A i \in 1..Len(loaded) : Clean(loaded[i].path, {})
       /\ LET all == FlatLoaded(Len(loaded))
          IN  \A g \in ValueFlags :
                 LET named == {i \in 1..Len(all) : all[i].name = g}
                 IN  IF named = {} THEN SameValue(g, flags, flags0)
                     ELSE Holds(g, all[Greatest(named)].value, flags)

\* Two files loaded one after the other, the first giving int_flag and the
\* second key1.
C3_Witness ==
    /\ stack = <<>> /\ AllSucceeded
    /\ Len(loaded) = 2
    /\ loaded[1].path # loaded[2].path
    /\ loaded[1].flags.int_flag # flags0.int_flag
    /\ loaded[1].flags.key1 = flags0.key1
    /\ flags.int_flag = loaded[1].flags.int_flag
    /\ flags.key1 # flags0.key1

\* C4: a second Load of the same file right after the first leaves the flags
\* as the first left them.
C4_LoadIsIdempotent ==
    \A i \in 1..(Len(loaded) - 1) :
       loaded[i].path = loaded[i + 1].path => loaded[i + 1].flags = loaded[i].flags

\* The same file loaded twice, the first Load having changed both flags.
C4_Witness ==
    /\ Len(loaded) = 2
    /\ loaded[1].path = loaded[2].path
    /\ loaded[1].flags.key1 # flags0.key1
    /\ loaded[1].flags.int_flag # flags0.int_flag

IsEmptyNameLine(l) == IsEntryLine(l) /\ EntryName(l) = <<>>

\* C7: a line whose name is empty makes Load return an error, the one of
\* flag.Set for the name "", and no later line is read or applied.
C7_EmptyNameIsAnError ==
    \A f \in Frames :
       \A i \in 1..f.pos :
          IsEmptyNameLine(LinesOf(f)[i]) =>
             /\ f.pos = i
             /\ Failed(f)
             /\ f.err.kind = "failed to set flag"
             /\ f.err.name = <<>>
             /\ \A c \in 1..Len(f.calls) : f.calls[c].line <= i

\* A Load returning the error of an empty name on the first of two lines,
\* the second an entry the registry would accept.
C7_Witness ==
    \E f \in Frames :
       /\ Failed(f)
       /\ f.pos = 1
       /\ Len(LinesOf(f)) = 2
       /\ IsEmptyNameLine(LinesOf(f)[1])
       /\ AcceptedLine(LinesOf(f)[2])
       /\ IsEntryLine(LinesOf(f)[2])

LoadErrorKinds ==
    {"failed to open file", "failed to split line", "failed to set flag", "failed to scan"}

C9_FileClosedOnEveryReturn ==
    /\ fds = {f.file : f \in Frames}
    /\ Cardinality(fds) = Len(stack)
    /\ stack = <<>> => fds = {}

\* Two Loads returned, one with an error of its own line and one with the
\* error of a nested Load, and nothing is open.
C9_Witness ==
    /\ stack = <<>>
    /\ fds = {}
    /\ Len(loaded) = 2
    /\ loaded[1].err.kind = "failed to split line"
    /\ loaded[2].err.kind = "failed to set flag"
    /\ loaded[2].err.cause.kind = "failed to split line"

\* C10: every call of Load returns, also when config-file entries make Load
\* call itself: the nesting never exhausts the runtime.
C10_LoadAlwaysReturns == ~crashed

====
